---- MODULE Spec2Model ----
(***************************************************************************)
(* Model of src/app.py: a Streamlit portfolio tracker.  One step of the    *)
(* model is one run of the script (Streamlit reruns the whole script on    *)
(* every interaction): both CSV files are loaded and normalised, at most   *)
(* one button is pressed, the handlers upsert/delete and save, and the     *)
(* holdings tab and the dashboard resolve a quote for every ticker through *)
(* the cached fetch_quote.                                                 *)
(*                                                                         *)
(* Conventions.  Money is counted in thousandths of a dollar (50.000 is    *)
(* 50000) so that round(2) is a real operation.  Text is a sequence of     *)
(* one-character strings so that upper()/strip() are computed.  Python     *)
(* None is the empty tuple and a float p is <<p>>.  pandas rules are those *)
(* of pandas 1.x/2.x (read_csv with the default NA strings, object text    *)
(* columns).                                                               *)
(***************************************************************************)
EXTENDS Integers, Sequences, FiniteSets, TLC

VARIABLES
    bal_file,   \* data/balances.csv
    hld_file,   \* data/holdings.csv
    balances,   \* the balances DataFrame at the end of the last run
    holdings,   \* the holdings DataFrame at the end of the last run
    cache,      \* st.cache_data store of fetch_quote: ticker -> [val, at]
    now,        \* wall clock, seconds
    yf,         \* TRUE iff "import yfinance" succeeded
    prices,     \* the prices resolved by the last run: ticker -> price/None
    calls,      \* tickers for which the last run called the provider
    event,      \* the interaction that triggered the last run
    request,    \* a provider answer handed to fetch_quote on its own
    result      \* what fetch_quote made of request

vars == <<bal_file, hld_file, balances, holdings, cache, now, yf, prices, calls,
          event, request, result>>

-----------------------------------------------------------------------------
(* Bounds of the model *)

\* tables never grow beyond this many rows (appends are disabled above it)
MaxRows == 2
\* the clock stops after this many steps of ClockStep seconds
MaxTicks == 3

(* Program constants *)

\* @st.cache_data(ttl=300)
TTL == 300

\* the clock is read in steps of half a TTL; two consecutive runs are one step
\* (the cache is still fresh) or two steps (it has expired) apart
ClockStep == TTL \div 2
Delays == {1, 2}

-----------------------------------------------------------------------------
(* Python / pandas values *)

None == <<>>
Some(p) == <<p>>

\* a note cell in memory: a str, or NaN
Str(s) == [na |-> FALSE, s |-> s]
NaN == [na |-> TRUE, s |-> ""]

\* a month cell in memory: a datetime.date, or NaT
Date(y, m, d) == [nat |-> FALSE, y |-> y, m |-> m, d |-> d]
NaT == [nat |-> TRUE, y |-> 0, m |-> 0, d |-> 0]

\* dt.date.today()
Today == Date(2024, 3, 15)

\* month.replace(day=1)
ReplaceDay1(date) == [date EXCEPT !.d = 1]

\* date ordering used by sort_values("month"); NaT sorts last
DateLT(a, b) ==
    IF a.nat THEN FALSE
    ELSE IF b.nat THEN TRUE
    ELSE \/ a.y < b.y
         \/ a.y = b.y /\ a.m < b.m
         \/ a.y = b.y /\ a.m = b.m /\ a.d < b.d

(* Text: str.upper() and str.strip() *)

UpperChar(c) ==
    CASE c = "a" -> "A" [] c = "f" -> "F" [] c = "n" -> "N" [] OTHER -> c

Upper(s) == [i \in DOMAIN s |-> UpperChar(s[i])]

RECURSIVE LStrip(_)
LStrip(s) == IF s # <<>> /\ Head(s) = " " THEN LStrip(Tail(s)) ELSE s

RECURSIVE RStrip(_)
RStrip(s) ==
    IF s # <<>> /\ s[Len(s)] = " " THEN RStrip(SubSeq(s, 1, Len(s) - 1)) ELSE s

Strip(s) == RStrip(LStrip(s))

-----------------------------------------------------------------------------
(* CSV files.  A file is absent, or a header (set of column names) and    *)
(* rows; a row maps each column of the header to the text of its cell.     *)
(* Cell texts: a ticker is its characters; a note is a string; a number    *)
(* cell is [k, n] with k = "num" (repr of n), "empty" or "text" (not a     *)
(* number); a month cell is [k, y, m, d] with k = "date" (ISO date),       *)
(* "empty" or "text" (not a date).                                         *)

NoFile == [exists |-> FALSE, cols |-> {}, rows |-> <<>>]

NumCell(n) == [k |-> "num", n |-> n]
EmptyNum == [k |-> "empty", n |-> 0]
TextNum == [k |-> "text", n |-> 0]

DateCell(y, m, d) == [k |-> "date", y |-> y, m |-> m, d |-> d]
EmptyDate == [k |-> "empty", y |-> 0, m |-> 0, d |-> 0]
TextDate == [k |-> "text", y |-> 0, m |-> 0, d |-> 0]

\* bal_required / hld_required: the columns (their defaults are in the loaders)
BalCols == {"month", "balance", "contribution", "note"}
HldCols == {"ticker", "shares", "cost_basis", "note"}

\* pandas read_csv: these strings are read as NaN (keep_default_na=True)
NaNotes == {"", "NA", "N/A", "NULL", "NaN", "nan", "null", "None", "n/a", "<NA>", "#N/A", "#NA"}
NaTickers == {<<>>, <<"N", "A">>, <<"n", "a", "n">>, <<"N", "a", "N">>,
              <<"N", "/", "A">>, <<"n", "/", "a">>}

\* read_csv of a note cell, no normalisation follows (lines 43, 118-126)
ReadNote(txt) == IF txt \in NaNotes THEN NaN ELSE Str(txt)

\* read_csv of a ticker cell, then .astype(str).str.upper().str.strip()
\* (line 124): NaN becomes the string "nan"
ReadTicker(txt) ==
    Strip(Upper(IF txt \in NaTickers THEN <<"n", "a", "n">> ELSE txt))

\* read_csv, then pd.to_numeric(errors="coerce").fillna(0.0)
ReadNum(c) == IF c.k = "num" THEN c.n ELSE 0

\* read_csv, then pd.to_datetime(errors="coerce").dt.date
ReadMonth(c) == IF c.k = "date" THEN Date(c.y, c.m, c.d) ELSE NaT

\* load_csv + "normalize types" for balances (lines 40-50, 114, 118-121).
\* A column missing from the file is backfilled with its default before the
\* normalisation: month "" (-> NaT), balance/contribution 0.0, note "".
LoadBalRow(cols, r) ==
    [month |-> IF "month" \in cols THEN ReadMonth(r.month) ELSE NaT,
     balance |-> IF "balance" \in cols THEN ReadNum(r.balance) ELSE 0,
     contribution |-> IF "contribution" \in cols THEN ReadNum(r.contribution) ELSE 0,
     note |-> IF "note" \in cols THEN ReadNote(r.note) ELSE Str("")]

LoadBalances(f) ==
    IF ~f.exists THEN <<>>
    ELSE [i \in DOMAIN f.rows |-> LoadBalRow(f.cols, f.rows[i])]

\* load_csv + "normalize types" for holdings (lines 40-50, 115, 123-126);
\* a missing ticker column is backfilled with "".
LoadHldRow(cols, r) ==
    [ticker |-> IF "ticker" \in cols THEN ReadTicker(r.ticker) ELSE <<>>,
     shares |-> IF "shares" \in cols THEN ReadNum(r.shares) ELSE 0,
     cost_basis |-> IF "cost_basis" \in cols THEN ReadNum(r.cost_basis) ELSE 0,
     note |-> IF "note" \in cols THEN ReadNote(r.note) ELSE Str("")]

LoadHoldings(f) ==
    IF ~f.exists THEN <<>>
    ELSE [i \in DOMAIN f.rows |-> LoadHldRow(f.cols, f.rows[i])]

\* DataFrame.to_csv(index=False): NaN and NaT are written as empty cells
WriteNote(v) == IF v.na THEN "" ELSE v.s
WriteMonth(v) == IF v.nat THEN EmptyDate ELSE DateCell(v.y, v.m, v.d)

SaveBalances(df) ==
    [exists |-> TRUE, cols |-> BalCols,
     rows |-> [i \in DOMAIN df |->
        [month |-> WriteMonth(df[i].month),
         balance |-> NumCell(df[i].balance),
         contribution |-> NumCell(df[i].contribution),
         note |-> WriteNote(df[i].note)]]]

SaveHoldings(df) ==
    [exists |-> TRUE, cols |-> HldCols,
     rows |-> [i \in DOMAIN df |->
        [ticker |-> df[i].ticker,
         shares |-> NumCell(df[i].shares),
         cost_basis |-> NumCell(df[i].cost_basis),
         note |-> WriteNote(df[i].note)]]]

-----------------------------------------------------------------------------
(* Record store: the upserts, the sort and the delete of the handlers *)

RECURSIVE InsertByMonth(_, _)
InsertByMonth(r, s) ==
    IF s = <<>> THEN <<r>>
    ELSE IF DateLT(r.month, Head(s).month) THEN <<r>> \o s
    ELSE <<Head(s)>> \o InsertByMonth(r, Tail(s))

\* balances.sort_values("month"): ascending, NaT last, ties keep their order
\* (numpy sorts runs of up to 16 elements by insertion)
RECURSIVE SortByMonth(_)
SortByMonth(df) ==
    IF df = <<>> THEN <<>>
    ELSE InsertByMonth(df[Len(df)], SortByMonth(SubSeq(df, 1, Len(df) - 1)))

HasMonth(df, m1) == \E i \in DOMAIN df : df[i].month = m1

\* Save/Update Month, lines 164-171
UpsertMonth(df, m1, balance, contrib, note) ==
    SortByMonth(
        IF Len(df) > 0 /\ HasMonth(df, m1)
        THEN [i \in DOMAIN df |->
                IF df[i].month = m1
                THEN [df[i] EXCEPT !.balance = balance, !.contribution = contrib,
                                   !.note = Str(note)]
                ELSE df[i]]
        ELSE Append(df, [month |-> m1, balance |-> balance,
                         contribution |-> contrib, note |-> Str(note)]))

\* Use Total Market Value as This Month's Balance, lines 224-231
UpsertSynced(df, m1, total_val) ==
    SortByMonth(
        IF Len(df) > 0 /\ HasMonth(df, m1)
        THEN [i \in DOMAIN df |->
                IF df[i].month = m1 THEN [df[i] EXCEPT !.balance = total_val]
                ELSE df[i]]
        ELSE Append(df, [month |-> m1, balance |-> total_val, contribution |-> 0,
                         note |-> Str("Synced from holdings")]))

HasTicker(df, tkr) == \E i \in DOMAIN df : df[i].ticker = tkr

\* the update written without its row mask
UpsertHoldingNoMask(df, tkr, sh, cb, nt) ==
    IF Len(df) > 0 /\ HasTicker(df, tkr)
    THEN [i \in DOMAIN df |->
            [df[i] EXCEPT !.shares = sh, !.cost_basis = cb, !.note = Str(nt)]]
    ELSE Append(df, [ticker |-> tkr, shares |-> sh, cost_basis |-> cb,
                     note |-> Str(nt)])

\* Add / Update holding, lines 199-203
UpsertHolding(df, tkr, sh, cb, nt) ==
    IF Len(df) > 0 /\ HasTicker(df, tkr)
    THEN [i \in DOMAIN df |->
            IF df[i].ticker = tkr
            THEN [df[i] EXCEPT !.shares = sh, !.cost_basis = cb, !.note = Str(nt)]
            ELSE df[i]]
    ELSE Append(df, [ticker |-> tkr, shares |-> sh, cost_basis |-> cb,
                     note |-> Str(nt)])

\* the filter with == for !=
RECURSIVE DeleteRowsKeepsMatch(_, _)
DeleteRowsKeepsMatch(df, del_t) ==
    IF df = <<>> THEN <<>>
    ELSE IF Head(df).ticker = del_t
         THEN <<Head(df)>> \o DeleteRowsKeepsMatch(Tail(df), del_t)
    ELSE DeleteRowsKeepsMatch(Tail(df), del_t)

\* holdings[holdings["ticker"] != del_t], line 252
RECURSIVE DeleteRows(_, _)
DeleteRows(df, del_t) ==
    IF df = <<>> THEN <<>>
    ELSE IF Head(df).ticker # del_t THEN <<Head(df)>> \o DeleteRows(Tail(df), del_t)
    ELSE DeleteRows(Tail(df), del_t)

Tickers(df) == {df[i].ticker : i \in DOMAIN df}

-----------------------------------------------------------------------------
(* Aggregation *)

\* round(2) of a non-negative amount in thousandths: to the nearest cent,
\* a tie to the even cent
Round2(x) ==
    LET q == x \div 10
        r == x % 10
    IN  IF r < 5 THEN 10 * q
        ELSE IF r > 5 THEN 10 * (q + 1)
        ELSE IF q % 2 = 0 THEN 10 * q ELSE 10 * (q + 1)

\* the loop with "total =" for "total +=": the last priced row wins
RECURSIVE SyncTotalLastOnly(_, _)
SyncTotalLastOnly(df, q) ==
    IF df = <<>> THEN 0
    ELSE LET r == df[Len(df)]
             tkr == Strip(r.ticker)
         IN  IF tkr # <<>> /\ r.shares > 0 /\ q[tkr] # None
             THEN q[tkr][1] * r.shares
             ELSE SyncTotalLastOnly(SubSeq(df, 1, Len(df) - 1), q)

\* the loop of lines 154-162: rows with a ticker and shares > 0 whose quote is
\* not None add price * shares, unrounded
RECURSIVE SyncTotal(_, _)
SyncTotal(df, q) ==
    IF df = <<>> THEN 0
    ELSE LET r == Head(df)
             tkr == Strip(r.ticker)
         IN  (IF tkr # <<>> /\ r.shares > 0 /\ q[tkr] # None
              THEN q[tkr][1] * r.shares ELSE 0)
             + SyncTotal(Tail(df), q)

\* lines 215-216, 220: last_price.fillna(0.0) * shares, rounded per row, summed;
\* a ticker that is not in the prices dict (the empty one) maps to NaN
RECURSIVE TotalMarketValue(_, _)
TotalMarketValue(df, q) ==
    IF df = <<>> THEN 0
    ELSE LET r == Head(df)
             px == IF r.ticker \in DOMAIN q /\ q[r.ticker] # None
                   THEN q[r.ticker][1] ELSE 0
         IN  Round2(px * r.shares) + TotalMarketValue(Tail(df), q)

-----------------------------------------------------------------------------
(* Quote resolver.  What the provider answers to one fetch_quote:          *)
(*   ctor  "ok" | "throws"                      yf.Ticker(ticker)          *)
(*   fi    [k, a, lastPrice, last_price]        t.fast_info                *)
(*           k = "throws" (reading it raises), "none", "attr" (an object   *)
(*           whose attribute last_price is a), "dict" (a dict with the two *)
(*           keys)                                                         *)
(*   hist  [k, close]   k = "throws" | "empty" | "rows"   t.history("1d")  *)
(*   info  [k, regularMarketPrice, currentPrice, previousClose]            *)
(*           k = "throws" | "none" | "dict"                t.info          *)
(* A field value is [k, n]: "absent", "null" (None), "bad" (float() of it  *)
(* raises), "raises" (reading it raises) or "num" (the number n).          *)

Absent == [k |-> "absent", n |-> 0]
Null == [k |-> "null", n |-> 0]
Bad == [k |-> "bad", n |-> 0]
Raises == [k |-> "raises", n |-> 0]
Num(n) == [k |-> "num", n |-> n]

\* the outcome of a block of code: it returns val, raises, or falls through
Return(v) == [k |-> "return", val |-> v]
Raise == [k |-> "raise", val |-> None]
Continue == [k |-> "continue", val |-> None]

\* return float(x)
ReturnFloat(x) == IF x.k = "num" THEN Return(Some(x.n)) ELSE Raise

\* lines 71-79, the body of the inner try
FastInfoBody(fi) ==
    CASE fi.k = "throws" -> Raise
      [] fi.k = "none" -> Continue
      [] fi.k = "attr" ->
            \* hasattr() is False for a missing attribute, and any other
            \* exception of the attribute leaves the block
            IF fi.a.k = "raises" THEN Raise
            ELSE IF fi.a.k \in {"absent", "null"} THEN Continue
            ELSE ReturnFloat(fi.a)
      [] OTHER ->
            IF fi.lastPrice.k # "absent" THEN ReturnFloat(fi.lastPrice)
            ELSE IF fi.last_price.k # "absent" THEN ReturnFloat(fi.last_price)
            ELSE Continue

\* lines 70-81: try ... except Exception: pass
FastInfoStep(fi) ==
    IF FastInfoBody(fi).k = "raise" THEN Continue ELSE FastInfoBody(fi)

\* lines 83-85
HistoryStep(h) ==
    CASE h.k = "throws" -> Raise
      [] h.k = "empty" -> Continue
      [] OTHER -> ReturnFloat(h.close)

InfoKeys == <<"regularMarketPrice", "currentPrice", "previousClose">>

\* lines 88-90: the first key that is present and not None is converted
RECURSIVE InfoLoop(_, _)
InfoLoop(info, i) ==
    IF i > Len(InfoKeys) THEN Continue
    ELSE IF info[InfoKeys[i]].k \in {"absent", "null"} THEN InfoLoop(info, i + 1)
    ELSE IF info[InfoKeys[i]].k = "raises" THEN Raise
    ELSE ReturnFloat(info[InfoKeys[i]])

\* lines 87-90
InfoStep(info) ==
    CASE info.k = "throws" -> Raise
      [] info.k = "none" -> Continue
      [] OTHER -> InfoLoop(info, 1)

\* lines 68-90, the body of the outer try
TryBody(resp) ==
    IF resp.ctor = "throws" THEN Raise
    ELSE IF FastInfoStep(resp.fi).k # "continue" THEN FastInfoStep(resp.fi)
    ELSE IF HistoryStep(resp.hist).k # "continue" THEN HistoryStep(resp.hist)
    ELSE InfoStep(resp.info)

\* the outer try without its except clause
OuterTryNoExcept(out) ==
    IF out.k = "continue" THEN Return(None) ELSE out

\* lines 67-93: try ... except Exception: return None; return None
OuterTry(out) ==
    IF out.k = "return" THEN out ELSE Return(None)

\* fetch_quote without its cache, lines 64-93
fetch_quote(yfOk, resp) ==
    IF ~yfOk THEN Return(None) ELSE OuterTry(TryBody(resp))

(* The cache of @st.cache_data(ttl=300): an entry is served while          *)
(* now < at + TTL; storing an entry drops the expired ones.                *)

\* an entry that is still served at the instant it expires
FreshInclusive(c, t, time) == t \in DOMAIN c /\ time <= c[t].at + TTL

Fresh(c, t, time) == t \in DOMAIN c /\ time < c[t].at + TTL

\* the tickers one run resolves from the function body, not from the cache
Misses(c, ts, time) == {t \in ts : ~Fresh(c, t, time)}

\* the cache after the run resolved `ts` at `time`, the body returning val[t]
CacheAfter(c, ts, time, val) ==
    LET miss == Misses(c, ts, time)
        kept == IF miss = {} THEN DOMAIN c
                ELSE {t \in DOMAIN c : time < c[t].at + TTL}
    IN  [t \in kept \cup miss |->
            IF t \in miss THEN [val |-> val[t], at |-> time] ELSE c[t]]

-----------------------------------------------------------------------------
(* Inputs *)

\* st.date_input("Month", ...): a day of this month and the first of another
DateInputs == {Date(2024, 3, 20), Date(2024, 2, 1)}

\* Ending Balance, Contribution, Note
MonthForms == {[balance |-> 5000000, contribution |-> 0, note |-> ""],
               [balance |-> 5200000, contribution |-> 0 - 25000, note |-> "x"]}

\* the submissions of "Save/Update Month": date, form, sync checkbox
MonthInputs ==
    {[date |-> d, form |-> f, sync |-> FALSE] : d \in DateInputs, f \in MonthForms}
    \cup {[date |-> d, form |-> CHOOSE f \in MonthForms : f.note = "", sync |-> TRUE] :
            d \in DateInputs}

\* the Ticker text input, before .upper().strip()
TickerInputs == {<<>>, <<" ", "n", "a">>, <<"f">>}

\* Shares, Cost Basis, Note
HoldingForms == {[shares |-> 5, cost_basis |-> 40000, note |-> ""],
                 [shares |-> 2, cost_basis |-> 1000, note |-> "x"]}

\* the submissions of "Add / Update": ticker, form
HoldingInputs ==
    {[tkr |-> t, form |-> f] : t \in TickerInputs \ {<<>>}, f \in HoldingForms}
    \cup {[tkr |-> <<>>, form |-> CHOOSE f \in HoldingForms : f.note = ""]}

NoFastInfo == [k |-> "none", a |-> Absent, lastPrice |-> Absent, last_price |-> Absent]
NoInfo == [k |-> "none", regularMarketPrice |-> Absent, currentPrice |-> Absent,
           previousClose |-> Absent]

FastInfos ==
    {[NoFastInfo EXCEPT !.k = "throws"], NoFastInfo}
    \cup {[NoFastInfo EXCEPT !.k = "attr", !.a = a] :
            a \in {Absent, Null, Bad, Raises, Num(11000)}}
    \cup {[NoFastInfo EXCEPT !.k = "dict", !.lastPrice = x, !.last_price = y] :
            x \in {Absent, Null, Bad, Num(12000)}, y \in {Absent, Null, Bad, Num(13000)}}

Histories ==
    {[k |-> "throws", close |-> Absent], [k |-> "empty", close |-> Absent],
     [k |-> "rows", close |-> Bad], [k |-> "rows", close |-> Num(21000)]}

Infos ==
    {[NoInfo EXCEPT !.k = "throws"], NoInfo}
    \cup {[k |-> "dict", regularMarketPrice |-> x, currentPrice |-> y, previousClose |-> z] :
            x \in {Absent, Null, Bad, Num(31000)},
            y \in {Absent, Null, Bad, Num(32000)},
            z \in {Absent, Null, Bad, Num(33000)}}

\* every provider answer of the model
Responses == [ctor : {"ok", "throws"}, fi : FastInfos, hist : Histories, info : Infos]

\* the answers the provider gives while the app runs: 50.004 as the last
\* close (fast_info raising), or nothing at all (every call raises)
Scenarios ==
    {[ctor |-> "ok", fi |-> [NoFastInfo EXCEPT !.k = "throws"],
      hist |-> [k |-> "rows", close |-> Num(50004)], info |-> NoInfo],
     [ctor |-> "ok", fi |-> [NoFastInfo EXCEPT !.k = "throws"],
      hist |-> [k |-> "throws", close |-> Absent],
      info |-> [NoInfo EXCEPT !.k = "throws"]]}

NoRequest == [ctor |-> "ok", fi |-> NoFastInfo,
              hist |-> [k |-> "empty", close |-> Absent], info |-> NoInfo]
Pending == [k |-> "pending", val |-> None]

-----------------------------------------------------------------------------
(* One run of the script *)

\* the widgets of a run: the button pressed, the sync checkbox, the key the
\* handler used (first of the chosen month, or the ticker), whether a record
\* with that key was found (lines 164, 199, 225), and the submitted fields
NoForm == [balance |-> 0, contribution |-> 0, shares |-> 0, cost_basis |-> 0, note |-> ""]
NoEvent == [pressed |-> "none", sync |-> FALSE, month |-> NaT, tkr |-> <<>>,
            existed |-> FALSE, form |-> NoForm]

\* the tickers the loop of lines 155-161 resolves
SyncTickers(df) ==
    {Strip(df[i].ticker) : i \in {j \in DOMAIN df :
                                    Strip(df[j].ticker) # <<>> /\ df[j].shares > 0}}

\* pressed: "none" | "save_month" | "add" | "use_total" | "delete"
Run(pressed, date, mform, sync, rawtkr, hform, del_t, delay) ==
    \E time \in {now + delay * ClockStep},
       bal0 \in {LoadBalances(bal_file)},                    \* lines 114-121
       hld0 \in {LoadHoldings(hld_file)},                    \* lines 115-126
       m1 \in {ReplaceDay1(date)},                           \* line 163
       this1 \in {ReplaceDay1(Today)},                       \* line 224
       tkr \in {Strip(Upper(rawtkr))} :                      \* line 192
    \E doSync \in {pressed = "save_month" /\ sync /\ Len(hld0) > 0},   \* line 153
       doAdd \in {pressed = "add" /\ tkr # <<>>} :           \* line 198
    \E hld1 \in {IF doAdd
                 THEN UpsertHolding(hld0, tkr, hform.shares, hform.cost_basis, hform.note)
                 ELSE hld0} :
    \E hld2 \in {IF pressed = "delete" THEN DeleteRows(hld1, del_t) ELSE hld1} :
    \* fetch_quote is called by the sync loop (159), the holdings tab (210-212)
    \* and the dashboard (261)
    \E ts \in {(IF doSync THEN SyncTickers(hld0) ELSE {})
               \cup (IF Len(hld1) > 0 THEN Tickers(hld1) \ {<<>>} ELSE {})
               \cup (IF Len(hld2) > 0 THEN Tickers(hld2) ELSE {})} :
    \E miss \in {Misses(cache, ts, time)} :
        /\ time <= MaxTicks * ClockStep
        /\ pressed = "save_month" => HasMonth(bal0, m1) \/ Len(bal0) < MaxRows
        /\ pressed = "add" => ~doAdd \/ HasTicker(hld0, tkr) \/ Len(hld0) < MaxRows
        /\ pressed = "use_total" =>
                Len(hld1) > 0 /\ (HasMonth(bal0, this1) \/ Len(bal0) < MaxRows)
        /\ pressed = "delete" => Len(hld1) > 0 /\ del_t # <<>> /\ del_t \in Tickers(hld1)
        /\ \E val \in [miss -> {fetch_quote(yf, r).val : r \in Scenarios}] :
           \E q \in {[t \in ts |-> IF t \in miss THEN val[t] ELSE cache[t].val]} :
           \E balance \in {IF doSync THEN SyncTotal(hld0, q) ELSE mform.balance} :
           \E bal2 \in {CASE pressed = "save_month" ->
                               UpsertMonth(bal0, m1, balance, mform.contribution, mform.note)
                          [] pressed = "use_total" ->
                               UpsertSynced(bal0, this1, TotalMarketValue(hld1, q))
                          [] OTHER -> bal0} :
                /\ now' = time
                /\ cache' = CacheAfter(cache, ts, time, val)
                /\ prices' = q
                /\ calls' = IF yf THEN miss ELSE {}
                /\ balances' = bal2
                /\ holdings' = hld2
                /\ bal_file' = IF pressed \in {"save_month", "use_total"}
                               THEN SaveBalances(bal2) ELSE bal_file
                /\ hld_file' = IF doAdd \/ pressed = "delete"
                               THEN SaveHoldings(hld2) ELSE hld_file
                /\ event' = [pressed |-> pressed,
                             sync |-> pressed = "save_month" /\ sync,
                             month |-> CASE pressed = "save_month" -> m1
                                         [] pressed = "use_total" -> this1
                                         [] OTHER -> NaT,
                             tkr |-> CASE pressed = "add" -> tkr
                                       [] pressed = "delete" -> del_t
                                       [] OTHER -> <<>>,
                             existed |-> CASE pressed = "save_month" -> HasMonth(bal0, m1)
                                           [] pressed = "add" -> doAdd /\ HasTicker(hld0, tkr)
                                           [] pressed = "use_total" -> HasMonth(bal0, this1)
                                           [] OTHER -> FALSE,
                             form |-> CASE pressed = "save_month" ->
                                            [NoForm EXCEPT !.balance = mform.balance,
                                                           !.contribution = mform.contribution,
                                                           !.note = mform.note]
                                        [] pressed = "add" ->
                                            [NoForm EXCEPT !.shares = hform.shares,
                                                           !.cost_basis = hform.cost_basis,
                                                           !.note = hform.note]
                                        [] OTHER -> NoForm]
        /\ UNCHANGED <<yf, request, result>>

AnyMonthForm == CHOOSE f \in MonthForms : TRUE
AnyHoldingForm == CHOOSE f \in HoldingForms : TRUE

\* a run with no button pressed
Rerun ==
    \E delay \in Delays :
        Run("none", Today, AnyMonthForm, FALSE, <<>>, AnyHoldingForm, <<>>, delay)

\* "Save/Update Month", lines 152-173
SaveMonth(date, mform, sync) ==
    \E delay \in Delays :
        Run("save_month", date, mform, sync, <<>>, AnyHoldingForm, <<>>, delay)

\* "Add / Update", lines 190-205
AddHolding(rawtkr, hform) ==
    \E delay \in Delays :
        Run("add", Today, AnyMonthForm, FALSE, rawtkr, hform, <<>>, delay)

\* "Use Total Market Value as This Month's Balance", lines 223-233
UseTotal ==
    \E delay \in Delays :
        Run("use_total", Today, AnyMonthForm, FALSE, <<>>, AnyHoldingForm, <<>>, delay)

\* "Delete", lines 249-254
Delete(del_t) ==
    \E delay \in Delays :
        Run("delete", Today, AnyMonthForm, FALSE, <<>>, AnyHoldingForm, del_t, delay)

\* fetch_quote applied to one provider answer
Resolve ==
    /\ result = Pending
    /\ result' = fetch_quote(yf, request)
    /\ UNCHANGED <<bal_file, hld_file, balances, holdings, cache, now, yf, prices,
                   calls, event, request>>

-----------------------------------------------------------------------------
(* Specifications *)

EmptyMap == [t \in {} |-> None]

InitApp ==
    /\ balances = <<>>
    /\ holdings = <<>>
    /\ cache = EmptyMap
    /\ now = 0
    /\ yf \in BOOLEAN
    /\ prices = EmptyMap
    /\ calls = {}
    /\ event = NoEvent
    /\ request = NoRequest
    /\ result = Pending

\* the app starts on an empty store: neither file exists
Init ==
    /\ bal_file = NoFile
    /\ hld_file = NoFile
    /\ InitApp

Next ==
    \/ Rerun
    \/ \E i \in MonthInputs : SaveMonth(i.date, i.form, i.sync)
    \/ \E i \in HoldingInputs : AddHolding(i.tkr, i.form)
    \/ UseTotal
    \/ \E del_t \in Tickers(LoadHoldings(hld_file)) : Delete(del_t)

Spec == Init /\ [][Next]_vars

\* fetch_quote on its own, over every provider answer
InitQuote ==
    /\ bal_file = NoFile
    /\ hld_file = NoFile
    /\ balances = <<>>
    /\ holdings = <<>>
    /\ cache = EmptyMap
    /\ now = 0
    /\ yf \in BOOLEAN
    /\ prices = EmptyMap
    /\ calls = {}
    /\ event = NoEvent
    /\ request \in Responses
    /\ result = Pending

NextQuote == Resolve

SpecQuote == InitQuote /\ [][NextQuote]_vars

\* the app starts on files somebody edited by hand: rows whose keys are equal
\* after normalisation, cells that are no numbers or dates, a missing column
EditedHoldings ==
    {NoFile,
     [exists |-> TRUE, cols |-> HldCols,
      rows |-> <<[ticker |-> <<" ", "f">>, shares |-> NumCell(1),
                  cost_basis |-> NumCell(1000), note |-> "old"],
                 [ticker |-> <<"F">>, shares |-> TextNum,
                  cost_basis |-> EmptyNum, note |-> ""] >>],
     [exists |-> TRUE, cols |-> HldCols \ {"note"},
      rows |-> <<[ticker |-> <<" ">>, shares |-> NumCell(3), cost_basis |-> NumCell(2000)]>>]}

EditedBalances ==
    {NoFile,
     [exists |-> TRUE, cols |-> BalCols,
      rows |-> <<[month |-> DateCell(2024, 3, 1), balance |-> NumCell(100000),
                  contribution |-> NumCell(0), note |-> "a"],
                 [month |-> DateCell(2024, 3, 1), balance |-> TextNum,
                  contribution |-> EmptyNum, note |-> ""] >>],
     [exists |-> TRUE, cols |-> BalCols \ {"contribution"},
      rows |-> <<[month |-> TextDate, balance |-> NumCell(7000), note |-> "NA"]>>]}

InitEdited ==
    /\ bal_file \in EditedBalances
    /\ hld_file \in EditedHoldings
    /\ InitApp

SpecEdited == InitEdited /\ [][Next]_vars

-----------------------------------------------------------------------------
(* Properties *)

UniqueMonths(df) == \A i, j \in DOMAIN df : df[i].month = df[j].month => i = j
UniqueTickers(df) == \A i, j \in DOMAIN df : df[i].ticker = df[j].ticker => i = j

WithMonth(df, m) == {i \in DOMAIN df : df[i].month = m}
WithTicker(df, t) == {i \in DOMAIN df : df[i].ticker = t}

Rows(df) == {df[i] : i \in DOMAIN df}

SavedMonth == event.pressed = "save_month"
SavedHolding == event.pressed = "add" /\ event.tkr # <<>>

\* C1: started on an empty store, after any sequence of user actions the
\* balances table holds at most one record per month and the holdings table
\* at most one record per ticker (the tables as the app loads them).
C1_OneRecordPerKey ==
    /\ UniqueMonths(LoadBalances(bal_file))
    /\ UniqueTickers(LoadHoldings(hld_file))

\* the numbers a provider answer carries
NumbersOf(resp) ==
    {v.n : v \in {x \in {resp.fi.a, resp.fi.lastPrice, resp.fi.last_price,
                         resp.hist.close, resp.info.regularMarketPrice,
                         resp.info.currentPrice, resp.info.previousClose} :
                    x.k = "num"}}

\* C2: whatever the three sources do (raise, malformed, null, absent, the
\* provider library missing), fetch_quote returns a price the provider gave or
\* None and never raises; with no source carrying a number it returns None.
C2_NeverRaises ==
    result # Pending =>
        /\ result.k = "return"
        /\ result.val = None \/ \E n \in NumbersOf(request) : result.val = Some(n)
        /\ (~yf \/ NumbersOf(request) = {}) => result.val = None

\* C2 witness: the library is there, fast_info holds a malformed value, the
\* history call raises, and the call returned None.
C2_Witness ==
    /\ result = Return(None)
    /\ yf
    /\ request.ctor = "ok"
    /\ request.fi.k = "attr" /\ request.fi.a = Bad
    /\ request.hist.k = "throws"
    /\ request.info.k = "dict" /\ request.info.regularMarketPrice = Bad

\* what a source yields when it is asked on its own: its price, or None when it
\* raises or has nothing
Yield(out) == IF out.k = "return" THEN out.val ELSE None

FirstUsable(resp) ==
    IF Yield(FastInfoStep(resp.fi)) # None THEN Yield(FastInfoStep(resp.fi))
    ELSE IF Yield(HistoryStep(resp.hist)) # None THEN Yield(HistoryStep(resp.hist))
    ELSE Yield(InfoStep(resp.info))

\* C3: fetch_quote returns the value of the first source, in the order
\* fast_info, last close, info fields, that yields a price; a source that
\* raises only counts as failed and the next one is still tried.
C3_FirstUsableSource ==
    (result # Pending /\ yf /\ request.ctor = "ok") =>
        result = Return(FirstUsable(request))

\* C4: an upsert on a table with unique keys overwrites the fields of the
\* record with that key, or appends one record if there is none; afterwards
\* exactly one record has the key, it carries the submitted fields, every
\* record with another key is unchanged, and the table is what was saved.
C4_Step ==
    /\ (event'.pressed = "save_month" /\ UniqueMonths(LoadBalances(bal_file))) =>
        LET old == LoadBalances(bal_file)
            new == balances'
            k == event'.month
        IN  /\ Cardinality(WithMonth(new, k)) = 1
            /\ \A i \in WithMonth(new, k) :
                /\ new[i].contribution = event'.form.contribution
                /\ new[i].note = Str(event'.form.note)
                /\ ~event'.sync => new[i].balance = event'.form.balance
            /\ {r \in Rows(new) : r.month # k} = {r \in Rows(old) : r.month # k}
            /\ Len(new) = Len(old) + (IF WithMonth(old, k) = {} THEN 1 ELSE 0)
            /\ bal_file' = SaveBalances(new)
    /\ (event'.pressed = "add" /\ event'.tkr # <<>>
            /\ UniqueTickers(LoadHoldings(hld_file))) =>
        LET old == LoadHoldings(hld_file)
            new == holdings'
            k == event'.tkr
        IN  /\ Cardinality(WithTicker(new, k)) = 1
            /\ \A i \in WithTicker(new, k) :
                /\ new[i].shares = event'.form.shares
                /\ new[i].cost_basis = event'.form.cost_basis
                /\ new[i].note = Str(event'.form.note)
            /\ SelectSeq(new, LAMBDA r : r.ticker # k)
                    = SelectSeq(old, LAMBDA r : r.ticker # k)
            /\ Len(new) = Len(old) + (IF WithTicker(old, k) = {} THEN 1 ELSE 0)
            /\ hld_file' = SaveHoldings(new)

C4_UpsertOverwritesOrAppends == [][C4_Step]_vars

\* C4 witness: a month that was already there has been saved again (5200 over
\* it), next to the record of another month.
C4_Witness ==
    /\ SavedMonth /\ event.existed /\ ~event.sync
    /\ event.form.balance = 5200000
    /\ Len(balances) = 2
    /\ \E i \in DOMAIN balances :
            balances[i].month = event.month /\ balances[i].balance = 5200000

\* C5: applying the upsert that was just applied once more (its own load,
\* upsert, save) leaves the stored table as it is.
C5_Idempotent ==
    /\ (SavedMonth /\ ~event.sync) =>
            SaveBalances(UpsertMonth(LoadBalances(bal_file), event.month,
                                     event.form.balance, event.form.contribution,
                                     event.form.note)) = bal_file
    /\ SavedHolding =>
            SaveHoldings(UpsertHolding(LoadHoldings(hld_file), event.tkr,
                                       event.form.shares, event.form.cost_basis,
                                       event.form.note)) = hld_file

\* a price, unavailable counted as 0
PriceOrZero(q, t) == IF t \in DOMAIN q /\ q[t] # None THEN q[t][1] ELSE 0

\* the sum of shares x price over a table, each product rounded to cents or not
RECURSIVE SumOver(_, _, _)
SumOver(df, q, rounded) ==
    IF df = <<>> THEN 0
    ELSE LET v == PriceOrZero(q, Head(df).ticker) * Head(df).shares
         IN  (IF rounded THEN Round2(v) ELSE v) + SumOver(Tail(df), q, rounded)

SyncTriggered == (SavedMonth /\ event.sync) \/ event.pressed = "use_total"

\* C6: whenever a sync is triggered, by the checkbox or by the button, for
\* every holdings table, the empty one too, the value written is the sum of
\* shares x price (unavailable as 0) and it is the balance of the record of
\* the first day of the current month.
C6_SyncWritesCurrentMonth ==
    SyncTriggered =>
        \E i \in DOMAIN balances :
            /\ balances[i].month = ReplaceDay1(Today)
            /\ balances[i].balance = SumOver(holdings, prices, FALSE)

\* C6 as amended: the checkbox writes the unrounded sum, over the holdings
\* with a ticker and shares > 0, to the first day of the month chosen in the
\* form, and the form's own balance when there are no holdings; the button
\* writes the sum of the per-holding values, each rounded to cents, to the
\* first day of the current month.
C6_SyncAmended ==
    /\ (SavedMonth /\ event.sync) =>
        /\ WithMonth(balances, event.month) # {}
        /\ \A i \in WithMonth(balances, event.month) :
            balances[i].balance =
                IF Len(holdings) > 0
                THEN SumOver(SelectSeq(holdings,
                                       LAMBDA r : r.ticker # <<>> /\ r.shares > 0),
                             prices, FALSE)
                ELSE event.form.balance
    /\ event.pressed = "use_total" =>
        /\ Len(holdings) > 0
        /\ event.month = ReplaceDay1(Today)
        /\ WithMonth(balances, event.month) # {}
        /\ \A i \in WithMonth(balances, event.month) :
            balances[i].balance =
                SumOver(SelectSeq(holdings, LAMBDA r : r.ticker # <<>>),
                        prices, TRUE)

\* C6 witness: the checkbox synced two holdings, one with a price and one
\* without, into a month that is not the current one.
C6_Witness ==
    /\ SavedMonth /\ event.sync
    /\ event.month # ReplaceDay1(Today)
    /\ Len(holdings) = 2
    /\ \E t \in DOMAIN prices : prices[t] = None
    /\ \E i \in DOMAIN balances :
            balances[i].month = event.month /\ balances[i].balance = 250020

\* C7: Delete removes the records of the chosen ticker and leaves every other
\* holding, and the balances file, as they were; a ticker that is not in the
\* table selects nothing, and a run without Delete writes no holdings.
C7_Step ==
    /\ event'.pressed = "delete" =>
        LET old == LoadHoldings(hld_file)
        IN  /\ WithTicker(holdings', event'.tkr) = {}
            /\ WithTicker(old, event'.tkr) # {}
            /\ holdings' = SelectSeq(old, LAMBDA r : r.ticker # event'.tkr)
            /\ hld_file' = SaveHoldings(holdings')
            /\ bal_file' = bal_file
    /\ event'.pressed \in {"none", "save_month", "use_total"} => hld_file' = hld_file
    /\ \A t \in {<<"A", "A", "P", "L">>, <<"F">>, <<"N", "A">>} :
            WithTicker(holdings', t) = {} => DeleteRows(holdings', t) = holdings'

C7_DeleteFrame == [][C7_Step]_vars

\* C7 witness: a ticker has been deleted and the other holding is still there.
C7_Witness ==
    /\ event.pressed = "delete"
    /\ Len(holdings) = 1
    /\ holdings[1].ticker # event.tkr

\* C8: an entry stored at time t0 is served, with no provider call, by every
\* run before t0 + 300 s; a ticker resolved with no such entry is fetched again
\* and stored; no run, whatever it writes to the files, drops or changes an
\* entry that has not expired.
C8_Step ==
    /\ \A t \in DOMAIN cache :
        now' < cache[t].at + 300 =>
            /\ t \in DOMAIN cache' /\ cache'[t] = cache[t]
            /\ t \notin calls'
            /\ t \in DOMAIN prices' => prices'[t] = cache[t].val
    /\ \A t \in DOMAIN prices' :
        (t \notin DOMAIN cache \/ now' >= cache[t].at + 300) =>
            /\ yf => t \in calls'
            /\ cache'[t] = [val |-> prices'[t], at |-> now']

C8_CacheWindow == [][C8_Step]_vars

\* C8 witness: a run that wrote to the store was served a price from an entry
\* stored by an earlier run, without calling the provider.
C8_Witness ==
    /\ yf
    /\ event.pressed \in {"save_month", "add", "use_total", "delete"}
    /\ \E t \in DOMAIN prices :
        /\ t \in DOMAIN cache /\ cache[t].at < now
        /\ prices[t] # None /\ prices[t] = cache[t].val
        /\ t \notin calls

\* C9: loading the file a handler has just saved gives back the records that
\* were saved, field by field.
C9_RoundTrip ==
    /\ event.pressed \in {"save_month", "use_total"} => LoadBalances(bal_file) = balances
    /\ (SavedHolding \/ event.pressed = "delete") => LoadHoldings(hld_file) = holdings

\* C10: whatever file the app started on, after an upsert to a key the saved
\* table holds exactly one record with that key.
C10_UpsertLeavesOneRecord ==
    /\ SavedMonth =>
        /\ bal_file = SaveBalances(balances)
        /\ Cardinality(WithMonth(balances, event.month)) = 1
    /\ SavedHolding =>
        /\ hld_file = SaveHoldings(holdings)
        /\ Cardinality(WithTicker(holdings, event.tkr)) = 1

====
